---- MODULE Spec2Model ----
(***************************************************************************)
(* ThreatFox ETL connector (etl_connector.py): extract_data,               *)
(* transform_data, load_data and run_etl, with the feed response and the   *)
(* MongoDB collection as the environment.                                  *)
(*                                                                         *)
(* Python values are tagged records [t, s, n, dt]:                         *)
(*   t  the Python type ("str", "int", "none", "list", "datetime"),        *)
(*   s  the characters of a str, n the value of an int, the length of a    *)
(*   list or the clock reading of utcnow(), dt the fields of a parsed      *)
(*   datetime.  A dict is a function from its keys to values.              *)
(***************************************************************************)
EXTENDS Integers, Sequences, FiniteSets, TLC

\* ------------------------------------------------------------------------
\* Bounds of the model
\* ------------------------------------------------------------------------
MaxItems == 2
MaxCalls == 2
MaxExtDeletes == 1

\* ------------------------------------------------------------------------
\* Python values
\* ------------------------------------------------------------------------
StrV(cs) == [t |-> "str", s |-> cs, n |-> 0, dt |-> <<>>]
IntV(k) == [t |-> "int", s |-> <<>>, n |-> k, dt |-> <<>>]
None == [t |-> "none", s |-> <<>>, n |-> 0, dt |-> <<>>]
List(k) == [t |-> "list", s |-> <<>>, n |-> k, dt |-> <<>>]
Datetime(f) == [t |-> "datetime", s |-> <<>>, n |-> 0, dt |-> f]
UtcNow(now) == [t |-> "datetime", s |-> <<>>, n |-> now, dt |-> <<>>]

\* bool(v) is False
Falsy(v) ==
    \/ v.t = "none"
    \/ v.t = "str" /\ v.s = <<>>
    \/ v.t = "int" /\ v.n = 0
    \/ v.t = "list" /\ v.n = 0

EmptyDict == <<>>
Get(d, k, default) == IF k \in DOMAIN d THEN d[k] ELSE default

\* an element of a feed list: a dict, or a JSON scalar that is not a mapping
DictEntry(d) == [t |-> "dict", s |-> <<>>, n |-> 0, d |-> d]
StrEntry(cs) == [t |-> "str", s |-> cs, n |-> 0, d |-> EmptyDict]

\* ------------------------------------------------------------------------
\* Strings
\* ------------------------------------------------------------------------
Whitespace == {" ", "\t", "\n", "\r"}
Digits == {"0", "1", "2", "3", "4", "5", "6", "7", "8", "9"}
DigitVal(c) ==
    CASE c = "0" -> 0 [] c = "1" -> 1 [] c = "2" -> 2 [] c = "3" -> 3
      [] c = "4" -> 4 [] c = "5" -> 5 [] c = "6" -> 6 [] c = "7" -> 7
      [] c = "8" -> 8 [] c = "9" -> 9

RECURSIVE LStrip(_)
LStrip(cs) ==
    IF cs # <<>> /\ Head(cs) \in Whitespace THEN LStrip(Tail(cs)) ELSE cs

RECURSIVE RStrip(_)
RStrip(cs) ==
    IF cs # <<>> /\ cs[Len(cs)] \in Whitespace
    THEN RStrip(SubSeq(cs, 1, Len(cs) - 1)) ELSE cs

\* str.strip()
Strip(cs) == RStrip(LStrip(cs))

\* c in cs
Contains(cs, c) == \E i \in 1..Len(cs) : cs[i] = c

\* the value of F at v, with v evaluated once
Let(v, F(_)) == CHOOSE r \in {F(x) : x \in {v}} : TRUE

\* int() of the k digits of cs from position i
RECURSIVE Number(_, _, _)
Number(cs, i, k) ==
    IF k = 0 THEN 0
    ELSE 10 * Number(cs, i, k - 1) + DigitVal(cs[i + k - 1])

\* the n characters of cs from position a are all of the set cls
AllIn(cs, a, n, cls) == \A i \in a..(a + n - 1) : cs[i] \in cls

IsLeap(y) == (y % 4 = 0 /\ y % 100 # 0) \/ y % 400 = 0
DaysInMonth(y, m) ==
    IF m = 2 THEN (IF IsLeap(y) THEN 29 ELSE 28)
    ELSE IF m \in {4, 6, 9, 11} THEN 30 ELSE 31

\* The ways '%Y-%m-%d %H:%M:%S' can lie on a string: %Y is four digits;
\* %m %d %H %M %S are one or two digits, %d also a space and one digit
\* (pad = 1); the blank of the format matches one or more whitespace
\* characters; nothing may follow the seconds.
Shapes == [nM : 1..2, pad : 0..1, nD : 1..2, nH : 1..2, nMi : 1..2, nS : 1..2]
WsLen(cs, sh) ==
    Len(cs) - (8 + sh.nM + sh.pad + sh.nD + sh.nH + sh.nMi + sh.nS)
PosD(sh) == 7 + sh.nM + sh.pad
PosW(sh) == PosD(sh) + sh.nD
PosH(cs, sh) == PosW(sh) + WsLen(cs, sh)
PosMi(cs, sh) == PosH(cs, sh) + sh.nH + 1
PosS(cs, sh) == PosMi(cs, sh) + sh.nMi + 1

ShapeMatches(cs, sh) ==
    /\ WsLen(cs, sh) >= 1
    /\ AllIn(cs, 1, 4, Digits) /\ cs[5] = "-"
    /\ AllIn(cs, 6, sh.nM, Digits) /\ cs[6 + sh.nM] = "-"
    /\ sh.pad = 1 => (cs[7 + sh.nM] = " " /\ sh.nD = 1)
    /\ AllIn(cs, PosD(sh), sh.nD, Digits)
    /\ AllIn(cs, PosW(sh), WsLen(cs, sh), Whitespace)
    /\ AllIn(cs, PosH(cs, sh), sh.nH, Digits)
    /\ cs[PosH(cs, sh) + sh.nH] = ":"
    /\ AllIn(cs, PosMi(cs, sh), sh.nMi, Digits)
    /\ cs[PosMi(cs, sh) + sh.nMi] = ":"
    /\ AllIn(cs, PosS(cs, sh), sh.nS, Digits)

ShapeFields(cs, sh) ==
    << Number(cs, 1, 4), Number(cs, 6, sh.nM), Number(cs, PosD(sh), sh.nD),
       Number(cs, PosH(cs, sh), sh.nH), Number(cs, PosMi(cs, sh), sh.nMi),
       Number(cs, PosS(cs, sh), sh.nS) >>

\* the fields form a date and time datetime() accepts
ValidDatetime(f) ==
    /\ f[1] >= 1
    /\ f[2] \in 1..12
    /\ f[3] \in 1..DaysInMonth(f[1], f[2])
    /\ f[4] \in 0..23
    /\ f[5] \in 0..59
    /\ f[6] \in 0..59

\* datetime.strptime(cs, '%Y-%m-%d %H:%M:%S'): the six fields, or <<>> for
\* ValueError
Strptime(cs) ==
    LET parsed == {f \in {ShapeFields(cs, sh) :
                             sh \in {x \in Shapes : ShapeMatches(cs, x)}} :
                      ValidDatetime(f)}
    IN  CHOOSE f \in parsed \cup {<<>>} : f # <<>> \/ parsed = {}

Chars_domain == <<"d", "o", "m", "a", "i", "n">>

\* ------------------------------------------------------------------------
\* validate_response, validate_ioc, extract_data
\* ------------------------------------------------------------------------
RequiredFields == {"ioc_value", "ioc_type", "malware"}

\* validate_ioc without the test of confidence_level against [0, 100]
validate_ioc_unranged(ioc) ==
    IF ioc.t \in {"int", "none"}
    THEN "TypeError"
    ELSE IF ioc.t # "dict"
    THEN "AttributeError"
    ELSE LET d == ioc.d IN
      IF \E field \in RequiredFields : field \notin DOMAIN d
      THEN "ValueError"
      ELSE IF d["ioc_value"].t # "str" \/ Strip(d["ioc_value"].s) = <<>>
      THEN "ValueError"
      ELSE IF d["ioc_type"] = StrV(Chars_domain)
              /\ ~Contains(d["ioc_value"].s, ".")
      THEN "ValueError"
      ELSE IF "confidence_level" \in DOMAIN d
              /\ d["confidence_level"].t # "int"
      THEN "TypeError"
      ELSE "ok"

\* validate_ioc(ioc): "ok" when it returns, else the exception it raises
validate_ioc(ioc) ==
    IF ioc.t \in {"int", "none"}
    THEN "TypeError"            \* 'field not in ioc' on a non-container
    ELSE IF ioc.t # "dict"
    THEN "AttributeError"       \* ioc.get('id') while building the message
    ELSE LET d == ioc.d IN
      IF \E field \in RequiredFields : field \notin DOMAIN d
      THEN "ValueError"
      ELSE IF d["ioc_value"].t # "str" \/ Strip(d["ioc_value"].s) = <<>>
      THEN "ValueError"
      ELSE IF d["ioc_type"] = StrV(Chars_domain)
              /\ ~Contains(d["ioc_value"].s, ".")
      THEN "ValueError"
      ELSE IF "confidence_level" \in DOMAIN d
      THEN IF d["confidence_level"].t # "int"
           THEN "TypeError"     \* 0 <= x <= 100 on a str, None or list
           ELSE IF d["confidence_level"].n >= 0
                   /\ d["confidence_level"].n <= 100
           THEN "ok" ELSE "ValueError"
      ELSE "ok"

\* validate_response(response): "ok" when it returns the parsed body
validate_response(response) ==
    IF response.status_code # 200 THEN "ValueError"
    ELSE IF response.body.kind = "invalid_json" THEN "ValueError"
    ELSE IF response.body.kind = "falsy" THEN "ValueError"
    ELSE "ok"

\* the inner loop with the try block around the loop instead of inside it:
\* the first invalid record ends the batch
RECURSIVE ValidateItems_abort(_, _)
ValidateItems_abort(items, iocs) ==
    IF items = <<>> THEN [exc |-> "ok", iocs |-> iocs]
    ELSE IF validate_ioc(Head(items)) = "ok"
    THEN ValidateItems_abort(Tail(items), Append(iocs, Head(items)))
    ELSE [exc |-> validate_ioc(Head(items)), iocs |-> iocs]

\* the inner for loop of extract_data over one list: [exc, iocs]
RECURSIVE ValidateItems(_, _)
ValidateItems(items, iocs) ==
    IF items = <<>> THEN [exc |-> "ok", iocs |-> iocs]
    ELSE LET r == validate_ioc(Head(items)) IN
         IF r = "ok" THEN ValidateItems(Tail(items), Append(iocs, Head(items)))
         ELSE IF r = "ValueError" THEN ValidateItems(Tail(items), iocs)
         ELSE [exc |-> r, iocs |-> iocs]

\* the outer for loop of extract_data over data.items(): [exc, iocs]
RECURSIVE ExtractGroups(_, _)
ExtractGroups(groups, iocs) ==
    IF groups = <<>> THEN [exc |-> "ok", iocs |-> iocs]
    ELSE IF ~Head(groups).islist THEN ExtractGroups(Tail(groups), iocs)
    ELSE LET r == ValidateItems(Head(groups).items, iocs) IN
         IF r.exc = "ok" THEN ExtractGroups(Tail(groups), r.iocs) ELSE r

\* extract_data() when requests.get produced outcome: the list returned
extract_data(outcome) ==
    IF outcome.raised THEN <<>>
    ELSE IF validate_response(outcome) # "ok" THEN <<>>
    ELSE IF outcome.body.kind # "mapping" THEN <<>>   \* data.items() fails
    ELSE LET r == ExtractGroups(outcome.body.groups, <<>>) IN
         IF r.exc = "ok" THEN r.iocs ELSE <<>>

\* ------------------------------------------------------------------------
\* parse_datetime, transform_data
\* ------------------------------------------------------------------------
\* what parse_datetime returns for the result f of strptime
ParsedValue(f) == IF f = <<>> THEN None ELSE Datetime(f)

\* parse_datetime(dt_str): [exc, val]
parse_datetime(v) ==
    IF Falsy(v) THEN [exc |-> "ok", val |-> None]
    ELSE IF v.t # "str" THEN [exc |-> "TypeError", val |-> None]
    ELSE [exc |-> "ok", val |-> Let(Strptime(v.s), ParsedValue)]

Min(a, b) == IF a < b THEN a ELSE b
Max(a, b) == IF a > b THEN a ELSE b

DocKeys ==
    {"ioc_id", "indicator", "ioc_type", "threat_type", "malware",
     "malware_alias", "first_seen", "last_seen", "confidence_level",
     "reference", "tags", "etl_timestamp"}

\* v is not None
KeepValue_notNone(v) == v.t # "none"

\* v not in (None, [])
KeepValue(v) == ~(v.t = "none" \/ (v.t = "list" /\ v.n = 0))

\* {k: v for k, v in doc.items() if v not in (None, [])}
CleanDoc(doc) == [k \in {j \in DOMAIN doc : KeepValue(doc[j])} |-> doc[k]]

\* the body of the try block of transform_data for a dict: [exc, doc]
BuildDoc(d, now) ==
    LET first == parse_datetime(Get(d, "first_seen_utc", None))
        last == parse_datetime(Get(d, "last_seen_utc", None))
        conf == Get(d, "confidence_level", IntV(50))
    IN  IF \E f \in RequiredFields : f \notin DOMAIN d
        THEN [exc |-> "KeyError", doc |-> EmptyDict]
        ELSE IF first.exc # "ok" THEN [exc |-> first.exc, doc |-> EmptyDict]
        ELSE IF last.exc # "ok" THEN [exc |-> last.exc, doc |-> EmptyDict]
        ELSE IF conf.t # "int" THEN [exc |-> "TypeError", doc |-> EmptyDict]
        ELSE [exc |-> "ok",
              doc |-> Let(
                [k \in DocKeys |->
                   CASE k = "ioc_id" -> Get(d, "id", None)
                     [] k = "indicator" -> d["ioc_value"]
                     [] k = "ioc_type" -> d["ioc_type"]
                     [] k = "threat_type" -> Get(d, "threat_type", None)
                     [] k = "malware" -> d["malware"]
                     [] k = "malware_alias" -> Get(d, "malware_alias", List(0))
                     [] k = "first_seen" -> first.val
                     [] k = "last_seen" -> last.val
                     [] k = "confidence_level" ->
                            IntV(Min(Max(conf.n, 0), 100))
                     [] k = "reference" -> Get(d, "reference", List(0))
                     [] k = "tags" -> Get(d, "tags", List(0))
                     [] k = "etl_timestamp" -> UtcNow(now)], CleanDoc)]

\* transform_data(raw_data): [raised, docs]; an item that is not a dict
\* fails in the try block and again on item.get('id') in the handler, and
\* that second exception leaves transform_data
RECURSIVE TransformItems(_, _, _)
TransformItems(items, now, transformed) ==
    IF items = <<>> THEN [raised |-> FALSE, docs |-> transformed]
    ELSE IF Head(items).t # "dict" THEN [raised |-> TRUE, docs |-> <<>>]
    ELSE LET r == BuildDoc(Head(items).d, now) IN
         IF r.exc = "ok"
         THEN TransformItems(Tail(items), now, Append(transformed, r.doc))
         ELSE TransformItems(Tail(items), now, transformed)

transform_data(raw_data, now) == TransformItems(raw_data, now, <<>>)

\* ------------------------------------------------------------------------
\* the collection: a sequence of documents
\* ------------------------------------------------------------------------
\* positions of the documents matching {'indicator': v}
Matching(coll, v) ==
    {i \in 1..Len(coll) : "indicator" \in DOMAIN coll[i] /\ coll[i]["indicator"] = v}

SetFields(old, doc) ==
    [k \in DOMAIN old \cup DOMAIN doc |-> IF k \in DOMAIN doc THEN doc[k] ELSE old[k]]

\* an insert in place of the upsert
UpdateOneUpsert_insert(coll, doc) ==
    [coll |-> Append(coll, doc), upserted |-> 1, modified |-> 0]

\* UpdateOne({'indicator': doc['indicator']}, {'$set': doc}, upsert=True)
\* applied to coll: [coll, upserted, modified]
UpdateOneUpsert(coll, doc) ==
    LET m == Matching(coll, doc["indicator"]) IN
    IF m = {}
    THEN [coll |-> Append(coll, doc), upserted |-> 1, modified |-> 0]
    ELSE LET i == CHOOSE j \in m : \A k \in m : j <= k
             new == SetFields(coll[i], doc)
         IN  [coll |-> [coll EXCEPT ![i] = new], upserted |-> 0,
              modified |-> IF new = coll[i] THEN 0 ELSE 1]

\* the state of a bulk write r after one more operation, for document doc
ApplyOperation(r, doc) ==
    LET u == UpdateOneUpsert(r.coll, doc) IN
    [coll |-> u.coll, upserted |-> r.upserted + u.upserted,
     modified |-> r.modified + u.modified]

\* collection.bulk_write(operations) applying the first k operations:
\* [coll, upserted, modified]
RECURSIVE BulkWrite(_, _, _)
BulkWrite(coll, docs, k) ==
    IF k = 0 THEN [coll |-> coll, upserted |-> 0, modified |-> 0]
    ELSE CHOOSE x \in {ApplyOperation(r, docs[k]) :
                          r \in {BulkWrite(coll, docs, k - 1)}} : TRUE

IndexNames == {"indicator_1", "ioc_type_1", "malware_1"}

\* the comparison of verify_mongodb_insert turned round
verify_mongodb_insert_reversed(actual, expected) ==
    IF actual > expected THEN "ValueError" ELSE "ok"

\* verify_mongodb_insert(collection, expected_count) having read actual
verify_mongodb_insert(actual, expected) ==
    IF actual < expected THEN "ValueError" ELSE "ok"

\* ------------------------------------------------------------------------
\* Inputs: feed records and responses
\* ------------------------------------------------------------------------
Chars_evil_com == <<"e", "v", "i", "l", ".", "c", "o", "m">>
Chars_evil == <<"e", "v", "i", "l">>
Chars_a_b == <<"a", ".", "b">>
Chars_c_d == <<"c", ".", "d">>
Chars_url == <<"u", "r", "l">>
Chars_high == <<"h", "i", "g", "h">>
Chars_junk == <<"j", "u", "n", "k">>
Chars_bad == <<"b", "a", "d">>
Chars_ts_ok ==
    <<"2", "0", "2", "4", "-", "0", "1", "-", "0", "1", " ",
      "1", "0", ":", "0", "0", ":", "0", "0">>
Chars_ts_feb30 ==
    <<"2", "0", "2", "3", "-", "2", "-", "3", "0", " ",
      "1", ":", "2", ":", "3">>

\* {"id":1,"ioc_value":"evil.com","ioc_type":"domain","malware":"X",
\*  "confidence_level":150}
ScenarioRecord ==
    DictEntry([id |-> IntV(1), ioc_value |-> StrV(Chars_evil_com),
               ioc_type |-> StrV(Chars_domain), malware |-> StrV(<<"X">>),
               confidence_level |-> IntV(150)])
ValidA ==
    DictEntry([id |-> IntV(2), ioc_value |-> StrV(Chars_evil_com),
               ioc_type |-> StrV(Chars_domain), malware |-> StrV(<<"X">>),
               confidence_level |-> IntV(80),
               first_seen_utc |-> StrV(Chars_ts_ok), last_seen_utc |-> None,
               reference |-> List(1), tags |-> List(0)])
ValidB ==
    DictEntry([ioc_value |-> StrV(Chars_a_b), ioc_type |-> StrV(Chars_url),
               malware |-> StrV(<<"Y">>), threat_type |-> None,
               first_seen_utc |-> StrV(Chars_bad),
               last_seen_utc |-> StrV(Chars_ts_feb30),
               malware_alias |-> List(0)])
\* valid for validate_ioc, but its timestamp is a number
ValidC ==
    DictEntry([id |-> IntV(4), ioc_value |-> StrV(Chars_c_d),
               ioc_type |-> StrV(Chars_url), malware |-> StrV(<<"Z">>),
               first_seen_utc |-> IntV(5)])
MissingMalware ==
    DictEntry([id |-> IntV(3), ioc_value |-> StrV(Chars_a_b),
               ioc_type |-> StrV(Chars_domain)])
NoDot ==
    DictEntry([ioc_value |-> StrV(Chars_evil), ioc_type |-> StrV(Chars_domain),
               malware |-> StrV(<<"X">>)])
BadConfType ==
    DictEntry([ioc_value |-> StrV(Chars_evil_com),
               ioc_type |-> StrV(Chars_domain), malware |-> StrV(<<"X">>),
               confidence_level |-> StrV(Chars_high)])
NegativeConf ==
    DictEntry([ioc_value |-> StrV(Chars_a_b), ioc_type |-> StrV(Chars_url),
               malware |-> None, confidence_level |-> IntV(0 - 10)])
NotMapping == StrEntry(Chars_junk)

\* what a feed list may hold
FeedEntries ==
    {ScenarioRecord, ValidA, ValidB, ValidC, MissingMalware, NoDot,
     BadConfType, NotMapping}

\* its indicator is removed from the document as an empty value
NullValue ==
    DictEntry([ioc_value |-> None, ioc_type |-> StrV(Chars_url),
               malware |-> StrV(<<"X">>)])

\* what transform_data may be handed directly
RawRecords ==
    {ScenarioRecord, ValidA, ValidB, ValidC, MissingMalware, NegativeConf,
     NullValue, NotMapping}

\* the records behind the documents load_data may be handed directly
LoadRecords == {ScenarioRecord, ValidB, NullValue}

SeqsUpTo(S, k) == UNION {[1..m -> S] : m \in 0..k}

ListGroup(items) == [islist |-> TRUE, items |-> items]
NonListGroup == [islist |-> FALSE, items |-> <<>>]

\* the groups of a feed body: one list, or two lists around a value that
\* is not a list
Layouts(items) ==
    LET h == Len(items) \div 2 IN
    { <<ListGroup(items)>>,
      <<ListGroup(SubSeq(items, 1, h)), NonListGroup,
        ListGroup(SubSeq(items, h + 1, Len(items)))>> }

NoBody == [kind |-> "falsy", groups |-> <<>>]
MappingBodies ==
    {[kind |-> "mapping", groups |-> g] :
        g \in UNION {Layouts(items) : items \in SeqsUpTo(FeedEntries, MaxItems)}}

\* outcomes of requests.get(url, headers=headers, timeout=30)
Outcomes ==
    {[raised |-> TRUE, status_code |-> 0, body |-> NoBody],
     [raised |-> FALSE, status_code |-> 404, body |-> NoBody],
     [raised |-> FALSE, status_code |-> 200, body |-> NoBody],
     [raised |-> FALSE, status_code |-> 200,
      body |-> [kind |-> "invalid_json", groups |-> <<>>]],
     [raised |-> FALSE, status_code |-> 200,
      body |-> [kind |-> "nonmapping", groups |-> <<>>]]}
    \cup {[raised |-> FALSE, status_code |-> 200, body |-> b] : b \in MappingBodies}

NoResponse == [raised |-> FALSE, status_code |-> 0, body |-> NoBody]
NoResult == [upserted |-> 0, modified |-> 0]

\* ------------------------------------------------------------------------
\* State
\* ------------------------------------------------------------------------
NoWrite == [done |-> FALSE, docs |-> <<>>, had |-> {}, dels |-> 0]

VARIABLES
    pc,               \* position of the caller and of run_etl
    lpc,              \* position of load_data
    response,         \* extract_data: what requests.get produced, kept
                      \* until run_etl has tested what extract_data returned
    raw_data,         \* run_etl: raw_data; transform_data: its argument
    transformed_data, \* run_etl: transformed_data; load_data: its argument
    store,            \* the documents of the collection
    indexes,          \* the names in collection.index_information()
    client,           \* load_data: "unbound", "open" or "closed"
    initial_count,    \* load_data: initial_count
    result,           \* load_data: result of bulk_write
    actual_count,     \* verify_mongodb_insert: actual_count, -1 before it
    pending,          \* load_data: the value of the return statement reached
    load_result,      \* how load_data ended: "true", "false" or "raised"
    etl_result,       \* how run_etl ended: "true", "false" or "raised"
    calls,            \* the stages run_etl has invoked, in order
    failed,           \* the step of load_data that raised
    clock,            \* the reading of datetime.utcnow()
    ncalls,           \* calls made by the caller
    extDeletes,       \* documents removed by another writer
    cur,              \* the bulk write this call of load_data completed
    prev              \* the bulk write completed before this call

vars ==
    <<pc, lpc, response, raw_data, transformed_data, store, indexes,
      client, initial_count, result, actual_count, pending, load_result,
      etl_result, calls, failed, clock, ncalls, extDeletes, cur, prev>>

loadLocals == <<client, initial_count, result, actual_count, pending, failed>>
etlLocals == <<response, raw_data, etl_result, calls>>
env == <<clock, ncalls, extDeletes>>

Init ==
    /\ pc = "idle"
    /\ lpc = "none"
    /\ response = NoResponse
    /\ raw_data = <<>>
    /\ transformed_data = <<>>
    /\ store = <<>>
    /\ indexes = {}
    /\ client = "unbound"
    /\ initial_count = 0
    /\ result = NoResult
    /\ actual_count = 0 - 1
    /\ pending = "none"
    /\ load_result = "none"
    /\ etl_result = "none"
    /\ calls = <<>>
    /\ failed = "none"
    /\ clock = 0
    /\ ncalls = 0
    /\ extDeletes = 0
    /\ cur = NoWrite
    /\ prev = NoWrite

\* ------------------------------------------------------------------------
\* run_etl
\* ------------------------------------------------------------------------
\* run_etl without the test of transformed_data
TransformedEmpty_never(td) == FALSE

\* if not transformed_data
TransformedEmpty(td) == td = <<>>

\* run_etl without its except clause
EtlOutcome_uncaught(lr) == lr

\* return success, or the except clause of run_etl when load_data raised
EtlOutcome(lr) == IF lr = "raised" THEN "false" ELSE lr

\* run_etl is called; it calls extract_data, which performs the request
RunEtlExtract ==
    /\ pc = "idle"
    /\ ncalls < MaxCalls
    /\ \E outcome \in Outcomes :
          /\ response' = outcome
          /\ raw_data' = extract_data(outcome)
    /\ calls' = <<"extract">>
    /\ pc' = "e_extracted"
    /\ ncalls' = ncalls + 1
    /\ UNCHANGED <<lpc, transformed_data, store, indexes, loadLocals,
                   load_result, etl_result, clock, extDeletes, cur, prev>>

\* if not raw_data: return False
RunEtlNoData ==
    /\ pc = "e_extracted"
    /\ raw_data = <<>>
    /\ etl_result' = "false"
    /\ pc' = "e_returned"
    /\ response' = NoResponse
    /\ UNCHANGED <<lpc, raw_data, transformed_data, store,
                   indexes, loadLocals, load_result, calls, env, cur, prev>>

\* transformed_data = transform_data(raw_data), and the test that follows;
\* the clock has advanced since the previous run
RunEtlTransform ==
    /\ pc = "e_extracted"
    /\ raw_data # <<>>
    /\ \E r \in {transform_data(raw_data, clock + 1)} :
          /\ transformed_data' = r.docs
          /\ IF r.raised \/ TransformedEmpty(r.docs)
             THEN etl_result' = "false" /\ pc' = "e_returned"
             ELSE etl_result' = etl_result /\ pc' = "e_transformed"
    /\ calls' = Append(calls, "transform")
    /\ clock' = clock + 1
    /\ response' = NoResponse
    /\ UNCHANGED <<lpc, raw_data, store, indexes, loadLocals,
                   load_result, ncalls, extDeletes, cur, prev>>

\* success = load_data(transformed_data): the call
RunEtlLoad ==
    /\ pc = "e_transformed"
    /\ calls' = Append(calls, "load")
    /\ lpc' = "start"
    /\ pc' = "e_loading"
    /\ UNCHANGED <<response, raw_data, transformed_data, store, indexes,
                   loadLocals, load_result, etl_result, env, cur, prev>>

\* load_data has ended: return success, or the except clause
RunEtlReturn ==
    /\ pc = "e_loading"
    /\ lpc = "returned"
    /\ etl_result' = EtlOutcome(load_result)
    /\ pc' = "e_returned"
    /\ UNCHANGED <<lpc, response, raw_data, transformed_data, store,
                   indexes, loadLocals, load_result, calls, env, cur, prev>>

\* ------------------------------------------------------------------------
\* load_data
\* ------------------------------------------------------------------------
\* load_data without client.close()
CloseClient_skipped(c) == c

\* client.close()
CloseClient(c) == "closed"

\* if not transformed_data: return False
LoadStart ==
    /\ lpc = "start"
    /\ IF transformed_data = <<>>
       THEN load_result' = "false" /\ lpc' = "returned"
       ELSE load_result' = load_result /\ lpc' = "open"
    /\ UNCHANGED <<pc, etlLocals, transformed_data, store, indexes,
                   loadLocals, env, cur, prev>>

\* client = MongoClient(Config.MONGO_URI), which may raise
LoadOpen ==
    /\ lpc = "open"
    /\ \E ok \in BOOLEAN :
          IF ok
          THEN client' = "open" /\ failed' = failed /\ lpc' = "count"
          ELSE client' = client /\ failed' = "open" /\ lpc' = "except"
    /\ UNCHANGED <<pc, etlLocals, transformed_data, store, indexes,
                   initial_count, result, actual_count, pending, load_result,
                   env, cur, prev>>

\* initial_count = collection.count_documents({}), which may raise
LoadCount ==
    /\ lpc = "count"
    /\ \E ok \in BOOLEAN :
          IF ok
          THEN initial_count' = Len(store) /\ failed' = failed /\ lpc' = "index"
          ELSE initial_count' = initial_count /\ failed' = "count"
               /\ lpc' = "except"
    /\ UNCHANGED <<pc, etlLocals, transformed_data, store, indexes,
                   client, result, actual_count, pending, load_result, env,
                   cur, prev>>

\* create the three indexes that are missing; the store may raise
LoadIndexes ==
    /\ lpc = "index"
    /\ \E ok \in BOOLEAN :
          IF ok
          THEN indexes' = indexes \cup IndexNames /\ failed' = failed
               /\ lpc' = "bulk"
          ELSE indexes' = indexes /\ failed' = "index" /\ lpc' = "except"
    /\ UNCHANGED <<pc, etlLocals, transformed_data, store, client,
                   initial_count, result, actual_count, pending, load_result,
                   env, cur, prev>>

\* what is remembered of a completed bulk write: its documents, and which
\* of them matched a stored document before it
WriteRecord(before, ds) ==
    [done |-> TRUE, docs |-> ds,
     had |-> {k \in 1..Len(ds) : Matching(before, ds[k]["indicator"]) # {}},
     dels |-> extDeletes]

\* operations = [...]; result = collection.bulk_write(operations): building
\* an operation raises KeyError for a document without 'indicator'; the
\* ordered bulk write may raise after any number of its operations
LoadBulkWrite ==
    /\ lpc = "bulk"
    /\ IF \E k \in 1..Len(transformed_data) :
             "indicator" \notin DOMAIN transformed_data[k]
       THEN /\ failed' = "operations"
            /\ lpc' = "except"
            /\ UNCHANGED <<store, result, cur>>
       ELSE \E n \in 0..Len(transformed_data) :
               \E r \in {BulkWrite(store, transformed_data, n)} :
               /\ store' = r.coll
               /\ IF n = Len(transformed_data)
                  THEN /\ result' = [upserted |-> r.upserted,
                                     modified |-> r.modified]
                       /\ cur' = WriteRecord(store, transformed_data)
                       /\ failed' = failed
                       /\ lpc' = "verify"
                  ELSE /\ failed' = "bulk_write"
                       /\ lpc' = "except"
                       /\ UNCHANGED <<result, cur>>
    /\ UNCHANGED <<pc, etlLocals, transformed_data, indexes, client,
                   initial_count, actual_count, pending, load_result, env,
                   prev>>

\* verify_mongodb_insert(collection, initial_count + result.upserted_count)
\* and return True; the count may raise
LoadVerify ==
    /\ lpc = "verify"
    /\ \E ok \in BOOLEAN :
          IF ~ok
          THEN /\ failed' = "verify_count" /\ lpc' = "except"
               /\ UNCHANGED <<actual_count, pending>>
          ELSE /\ actual_count' = Len(store)
               /\ IF verify_mongodb_insert(
                        Len(store), initial_count + result.upserted) # "ok"
                  THEN failed' = "data_loss" /\ lpc' = "except"
                       /\ pending' = pending
                  ELSE failed' = failed /\ lpc' = "finally"
                       /\ pending' = "true"
    /\ UNCHANGED <<pc, etlLocals, transformed_data, store, indexes,
                   client, initial_count, result, load_result, env, cur, prev>>

\* except Exception: return False
LoadExcept ==
    /\ lpc = "except"
    /\ pending' = "false"
    /\ lpc' = "finally"
    /\ UNCHANGED <<pc, etlLocals, transformed_data, store, indexes,
                   client, initial_count, result, actual_count, failed,
                   load_result, env, cur, prev>>

\* finally: client.close(); the name client is unbound when MongoClient
\* raised, and the UnboundLocalError replaces the pending return
LoadFinally ==
    /\ lpc = "finally"
    /\ IF client = "unbound"
       THEN client' = client /\ load_result' = "raised"
       ELSE client' = CloseClient(client) /\ load_result' = pending
    /\ lpc' = "returned"
    /\ UNCHANGED <<pc, etlLocals, transformed_data, store, indexes,
                   initial_count, result, actual_count, pending, failed, env,
                   cur, prev>>

\* ------------------------------------------------------------------------
\* The caller and the other writer
\* ------------------------------------------------------------------------
\* a direct call of transform_data on raw records
CallTransform ==
    /\ pc = "idle"
    /\ ncalls < MaxCalls
    /\ \E raw \in SeqsUpTo(RawRecords, MaxItems) :
          \E r \in {transform_data(raw, clock)} :
             /\ raw_data' = raw
             /\ transformed_data' = r.docs
             /\ pc' = IF r.raised THEN "t_raised" ELSE "t_returned"
    /\ ncalls' = ncalls + 1
    /\ UNCHANGED <<lpc, response, store, indexes, loadLocals, load_result,
                   etl_result, calls, clock, extDeletes, cur, prev>>

\* a direct call of load_data on documents transform_data built from raw
\* records at the current clock reading
CallLoad ==
    /\ pc = "idle"
    /\ ncalls < MaxCalls
    /\ \E raw \in SeqsUpTo(LoadRecords, MaxItems) :
          transformed_data' = transform_data(raw, clock).docs
    /\ lpc' = "start"
    /\ pc' = "l_loading"
    /\ ncalls' = ncalls + 1
    /\ UNCHANGED <<response, raw_data, store, indexes, loadLocals,
                   load_result, etl_result, calls, clock, extDeletes, cur,
                   prev>>

\* the call has ended and its locals are gone
Return ==
    /\ \/ pc \in {"e_returned", "t_returned", "t_raised"}
       \/ pc = "l_loading" /\ lpc = "returned"
    /\ pc' = "idle"
    /\ lpc' = "none"
    /\ response' = NoResponse
    /\ raw_data' = <<>>
    /\ transformed_data' = <<>>
    /\ client' = "unbound"
    /\ initial_count' = 0
    /\ result' = NoResult
    /\ actual_count' = 0 - 1
    /\ pending' = "none"
    /\ load_result' = "none"
    /\ etl_result' = "none"
    /\ calls' = <<>>
    /\ failed' = "none"
    /\ prev' = IF cur.done THEN cur ELSE prev
    /\ cur' = NoWrite
    /\ UNCHANGED <<store, indexes, env>>

\* another writer deletes a document while load_data holds its connection
\* (a deletion at any other moment has the effect of one before the count)
ExternalDelete ==
    /\ lpc \in {"count", "index", "bulk", "verify"}
    /\ extDeletes < MaxExtDeletes
    /\ \E i \in 1..Len(store) :
          store' = SubSeq(store, 1, i - 1) \o SubSeq(store, i + 1, Len(store))
    /\ extDeletes' = extDeletes + 1
    /\ UNCHANGED <<pc, lpc, etlLocals, transformed_data, indexes,
                   loadLocals, load_result, clock, ncalls, cur, prev>>

Next ==
    \/ RunEtlExtract
    \/ RunEtlNoData
    \/ RunEtlTransform
    \/ RunEtlLoad
    \/ RunEtlReturn
    \/ LoadStart
    \/ LoadOpen
    \/ LoadCount
    \/ LoadIndexes
    \/ LoadBulkWrite
    \/ LoadVerify
    \/ LoadExcept
    \/ LoadFinally
    \/ CallTransform
    \/ CallLoad
    \/ Return
    \/ ExternalDelete

Spec == Init /\ [][Next]_vars

\* the steps of run_etl and load_data once called: the code is sequential
\* and each statement is followed by the next
Proceed ==
    \/ RunEtlNoData
    \/ RunEtlTransform
    \/ RunEtlLoad
    \/ RunEtlReturn
    \/ LoadStart
    \/ LoadOpen
    \/ LoadCount
    \/ LoadIndexes
    \/ LoadBulkWrite
    \/ LoadVerify
    \/ LoadExcept
    \/ LoadFinally

\* a call, once made, runs to its end
FairSpec == Spec /\ WF_vars(Proceed)

\* ------------------------------------------------------------------------
\* Properties
\* ------------------------------------------------------------------------
Valid(e) == validate_ioc(e) = "ok"

RECURSIVE Flatten(_)
Flatten(groups) ==
    IF groups = <<>> THEN <<>>
    ELSE (IF Head(groups).islist THEN Head(groups).items ELSE <<>>)
         \o Flatten(Tail(groups))

\* extract_data has returned for a status 200 response whose body is a
\* non-empty mapping
ExtractedFromMapping ==
    /\ pc = "e_extracted"
    /\ ~response.raised
    /\ response.status_code = 200
    /\ response.body.kind = "mapping"

LoadStepsAfterWrite == {"verify", "except", "finally", "returned"}
AllStages == <<"extract", "transform", "load">>

ScenarioResponse ==
    [raised |-> FALSE, status_code |-> 200,
     body |-> [kind |-> "mapping",
               groups |-> <<ListGroup(<<ScenarioRecord>>)>>]]

IsScenarioDoc(doc) ==
    /\ "confidence_level" \in DOMAIN doc
    /\ doc["confidence_level"] = IntV(100)
    /\ "indicator" \in DOMAIN doc
    /\ doc["indicator"] = StrV(Chars_evil_com)
    /\ "threat_type" \notin DOMAIN doc

ScenarioDocLoaded ==
    /\ lpc \in LoadStepsAfterWrite
    /\ cur.done
    /\ cur.dels = extDeletes
    /\ Len(transformed_data) = 1
    /\ IsScenarioDoc(transformed_data[1])

\* C1, as stated: for the feed {"2024-01-01": [{id 1, evil.com, domain, X,
\* confidence_level 150}]} extract_data returns exactly that one record,
\* transform_data yields one document with confidence_level 100, indicator
\* "evil.com" and no threat_type, and load_data upserts one document.
C1_ScenarioAsStated ==
    /\ (pc = "e_extracted" /\ response = ScenarioResponse)
          => raw_data = <<ScenarioRecord>>
    /\ (pc \in {"e_transformed", "e_loading", "e_returned", "t_returned"}
        /\ raw_data = <<ScenarioRecord>>)
          => (Len(transformed_data) = 1 /\ IsScenarioDoc(transformed_data[1]))
    /\ ScenarioDocLoaded
          => Cardinality(Matching(store, StrV(Chars_evil_com))) = 1

\* C1, amended: for that feed validate_ioc rejects the record (150 is outside
\* [0, 100]), extract_data returns the empty list and run_etl returns false
\* having called neither transform_data nor load_data; transform_data given
\* the record directly yields one document with confidence_level 100,
\* indicator "evil.com" and no threat_type, and load_data given that
\* document upserts it: one stored document has that indicator.
C1_ScenarioRejected ==
    /\ validate_ioc(ScenarioRecord) = "ValueError"
    /\ (pc = "e_extracted" /\ response = ScenarioResponse) => raw_data = <<>>
    /\ (pc = "e_returned" /\ raw_data = <<>>)
          => (etl_result = "false" /\ calls = <<"extract">>)
    /\ (pc = "t_returned" /\ raw_data = <<ScenarioRecord>>)
          => (Len(transformed_data) = 1 /\ IsScenarioDoc(transformed_data[1]))
    /\ ScenarioDocLoaded
          => /\ Cardinality(Matching(store, StrV(Chars_evil_com))) = 1
             /\ result.upserted = (IF cur.had = {} THEN 1 ELSE 0)

C1_Witness ==
    /\ pc = "e_extracted"
    /\ response = ScenarioResponse
    /\ raw_data = <<>>

\* C2: for a status 200 response whose body maps keys to lists, extract_data
\* returns every entry that satisfies validate_ioc, in feed order, whatever
\* makes the other entries invalid.
C2_ValidRecordsSurvive ==
    ExtractedFromMapping
        => raw_data = SelectSeq(Flatten(response.body.groups), Valid)

\* C3: load_data called with a non-empty list never ends by raising; when
\* one of its steps failed it returns false.
C3_LoadNeverRaises ==
    (lpc = "returned" /\ transformed_data # <<>>)
        => /\ load_result # "raised"
           /\ failed # "none" => load_result = "false"

SameDocumentLoadedAgain ==
    /\ lpc \in LoadStepsAfterWrite
    /\ cur.done
    /\ prev.done
    /\ Len(cur.docs) = 1
    /\ cur.docs = prev.docs
    /\ prev.had = {}
    /\ prev.dels = extDeletes

\* C4: when load_data has written a single document whose indicator was
\* not stored, and the next bulk write is of the same document (no other
\* writer having deleted in between), that second write reports
\* upserted_count 0, the record count has not grown over its initial count,
\* and exactly one stored document has the indicator.
C4_LoadIdempotent ==
    SameDocumentLoadedAgain
        => /\ result.upserted = 0
           /\ cur.had = {1}
           /\ Len(store) = initial_count
           /\ Cardinality(Matching(store, cur.docs[1]["indicator"])) = 1

C4_Witness ==
    /\ SameDocumentLoadedAgain
    /\ lpc = "returned"
    /\ load_result = "true"

\* C5: run_etl invokes extract, transform, load in that order; an empty
\* extraction (status 404 among the causes) ends it with false before
\* transform_data, an empty transformation ends it with false before
\* load_data and before any connection is opened; otherwise it returns what
\* load_data returned.
C5_OrderAndShortCircuit ==
    /\ \E n \in 0..3 : calls = SubSeq(AllStages, 1, n)
    /\ (pc = "e_extracted" /\ ~response.raised /\ response.status_code = 404)
          => raw_data = <<>>
    /\ (pc = "e_returned" /\ raw_data = <<>>)
          => /\ etl_result = "false"
             /\ calls = <<"extract">>
             /\ lpc = "none" /\ client = "unbound"
    /\ (pc = "e_returned" /\ raw_data # <<>> /\ transformed_data = <<>>)
          => /\ etl_result = "false"
             /\ calls = <<"extract", "transform">>
             /\ lpc = "none" /\ client = "unbound"
    /\ pc = "e_loading"
          => /\ calls = AllStages
             /\ raw_data # <<>> /\ transformed_data # <<>>
    /\ (pc = "e_returned" /\ raw_data # <<>> /\ transformed_data # <<>>)
          => /\ calls = AllStages
             /\ lpc = "returned"
             /\ load_result \in {"true", "false"} => etl_result = load_result

C5_Witness ==
    /\ pc = "e_returned"
    /\ raw_data # <<>>
    /\ transformed_data = <<>>
    /\ etl_result = "false"

RunEtlRunning == pc \in {"e_extracted", "e_transformed", "e_loading"}

RunEtlEndsWell ==
    /\ etl_result # "raised"
    /\ pc = "e_returned"
          => /\ etl_result \in {"true", "false"}
             /\ etl_result = "true" => load_result = "true"
             /\ (\/ raw_data = <<>>
                 \/ transformed_data = <<>>
                 \/ failed # "none"
                 \/ load_result = "raised") => etl_result = "false"

\* C6: run_etl never raises and every run of it ends: it returns false
\* whenever a stage failed, came back empty or raised, and true only when
\* load_data returned true.
C6_RunEtlAlwaysReturns ==
    /\ []RunEtlEndsWell
    /\ RunEtlRunning ~> (pc = "e_returned")

C6_Witness ==
    /\ pc = "e_returned"
    /\ load_result = "raised"
    /\ etl_result = "false"

\* C7: the connection load_data opened is closed when load_data has ended,
\* on every path; it is open only between MongoClient() and the finally
\* clause.
C7_ConnectionClosed ==
    /\ lpc = "returned" => client # "open"
    /\ client = "open"
          => lpc \in {"count", "index", "bulk", "verify", "except", "finally"}
    /\ (lpc = "returned" /\ failed \notin {"none", "open"}) => client = "closed"
    /\ (lpc = "returned" /\ load_result = "true") => client = "closed"

C7_Witness ==
    /\ lpc = "returned"
    /\ failed = "bulk_write"
    /\ client = "closed"

\* C8: once verify_mongodb_insert has read the count after the bulk write,
\* load_data returns false when it is less than initial_count plus
\* upserted_count, and true otherwise.
C8_PostWriteVerification ==
    (lpc = "returned" /\ actual_count >= 0)
        => IF actual_count < initial_count + result.upserted
           THEN load_result = "false" /\ failed = "data_loss"
           ELSE load_result = "true" /\ failed = "none"

C8_Witness ==
    /\ lpc = "returned"
    /\ actual_count >= 0
    /\ actual_count < initial_count + result.upserted
    /\ load_result = "false"

EmptyValue(v) == v.t = "none" \/ (v.t = "list" /\ v.n = 0)

\* the optional fields of a raw record and the document keys they become
OptionalKeys ==
    {<<"id", "ioc_id">>, <<"threat_type", "threat_type">>,
     <<"malware_alias", "malware_alias">>, <<"reference", "reference">>,
     <<"tags", "tags">>}
TimestampKeys ==
    {<<"first_seen_utc", "first_seen">>, <<"last_seen_utc", "last_seen">>}

Removed(d, doc, keys) ==
    (keys[1] \notin DOMAIN d \/ EmptyValue(d[keys[1]]))
        => keys[2] \notin DOMAIN doc

UnparsedRemoved(d, doc, keys) ==
    (/\ keys[1] \in DOMAIN d
     /\ d[keys[1]].t = "str"
     /\ Strptime(d[keys[1]].s) = <<>>) => keys[2] \notin DOMAIN doc

\* C9: every document transform_data produces has the key etl_timestamp
\* and no key whose value is None or an empty list; an optional field that
\* is absent, None or an empty list, and a timestamp that does not parse,
\* leave no key in the document.
C9_PresenceReduction ==
    /\ \A i \in 1..Len(transformed_data) :
          /\ "etl_timestamp" \in DOMAIN transformed_data[i]
          /\ transformed_data[i]["etl_timestamp"].t = "datetime"
          /\ \A k \in DOMAIN transformed_data[i] :
                ~EmptyValue(transformed_data[i][k])
    /\ (pc = "t_returned" /\ Len(raw_data) = 1 /\ Len(transformed_data) = 1)
          => /\ \A keys \in OptionalKeys \cup TimestampKeys :
                   Removed(raw_data[1].d, transformed_data[1], keys)
             /\ \A keys \in TimestampKeys :
                   UnparsedRemoved(raw_data[1].d, transformed_data[1], keys)

C9_Witness ==
    /\ pc = "t_returned"
    /\ raw_data = <<ValidB>>
    /\ Len(transformed_data) = 1
    /\ DOMAIN transformed_data[1] =
          {"indicator", "ioc_type", "malware", "confidence_level",
           "etl_timestamp"}

LacksRequired(e) ==
    e.t = "dict" /\ \E f \in RequiredFields : f \notin DOMAIN e.d

====
